---- MODULE Spec2Model ----
(***************************************************************************)
(* Model of rutt's list browser: the App state of src/ui/app.rs (cursor,  *)
(* scroll window, view mode, detail scroll, lazily fetched bodies) and     *)
(* its public operations.                                                  *)
(*                                                                         *)
(* Option<usize> is modelled by None == -1 and Some(i) == i.               *)
(* ViewMode is modelled by <<"List">> and <<"Detail", i>>.                 *)
(* A usize subtraction that goes below zero panics when the build has      *)
(* overflow checks (cargo's dev and test profiles) and wraps otherwise     *)
(* (release profile); the profile is chosen in Init.                       *)
(***************************************************************************)
EXTENDS Integers, Sequences, FiniteSets, TLC

\* ---------------------------------------------------------------- bounds
\* Largest number of emails handed to App::new (list viewport runs).
MaxTotal == 5
\* Largest number of emails handed to App::new (runs of the whole App).
MaxAppTotal == 2
\* Largest list-area height passed to set_visible_items (list viewport runs).
MaxHeight == 6
\* Largest list-area height passed to set_visible_items (runs of the whole
\* App, where the window also keeps its initial height for a while).
MaxAppHeight == 0
\* Largest detail scroll offset explored (detail_scroll_offset is a u16).
MaxDetailScroll == 1
\* Largest number of emails handed to App::new (runs of the event loop).
MaxRunTotal == 1
\* Largest list-area height a draw of the event loop computes.
MaxRunHeight == 2

\* ------------------------------------------------------------- constants
\* Placeholder window height stored by App::new.
InitialVisibleItems == 10
\* Largest value of detail_scroll_offset (u16::MAX).
U16_MAX == 65535
\* Largest usize. The checker's integers are 32 bits wide, so the 64-bit
\* value is scaled down; it is only ever produced by a wrapped subtraction.
USIZE_MAX == (2 ^ 30) - 1

\* ------------------------------------------------------------- variables
VARIABLES
    emails,                 \* App::emails, a sequence of [uid, body]
    selected,               \* App::list_state.selected()
    mode,                   \* App::mode
    scroll_offset,          \* App::scroll_offset
    visible_items,          \* App::visible_items
    detail_scroll_offset,   \* App::detail_scroll_offset
    overflow_checks,        \* build profile: TRUE = dev/test, FALSE = release
    panicked,               \* the thread has panicked (arithmetic overflow)
    requested,              \* uid the last operation asked the mail source for
    pc,                     \* run_app: where the event loop is
    frame_height,           \* run_app: list-area height of the last list frame
    twin,                   \* a second run fed the same keys and heights
    op,                     \* history: name of the last operation called
    pre                     \* history: the fields before the last operation

vars == <<emails, selected, mode, scroll_offset, visible_items,
          detail_scroll_offset, overflow_checks, panicked, requested, pc,
          frame_height, twin, op, pre>>

\* ------------------------------------------------------------ primitives
None == -1

Some(i) == i

is_some(x) == x # None

unwrap_or(x, d) == IF x = None THEN d ELSE x

min(a, b) == IF a <= b THEN a ELSE b

max(a, b) == IF a >= b THEN a ELSE b

\* usize::saturating_sub
saturating_sub(a, b) == IF a >= b THEN a - b ELSE 0

\* The `-` operator on usize without overflow checks (two's complement wrap).
wrapping_sub(a, b) == IF a >= b THEN a - b ELSE a - b + USIZE_MAX + 1

\* u16::saturating_add
saturating_add_u16(a, b) == IF a + b > U16_MAX THEN U16_MAX ELSE a + b

\* ViewMode
List == <<"List">>

Detail(i) == <<"Detail", i>>

\* Email::body values: not fetched yet, or one of the fetched payloads.
NoBody == "None"

Payloads == {"text", "(No body content)"}

\* Result<String> of GmailClient::fetch_email_body.
FetchErr == "Err"

FetchResults == Payloads \cup {FetchErr}

\* self.emails.len()
total == Len(emails)

\* The current App value as a record.
App == [emails |-> emails, selected |-> selected, mode |-> mode,
        scroll_offset |-> scroll_offset, visible_items |-> visible_items,
        detail_scroll_offset |-> detail_scroll_offset,
        overflow_checks |-> overflow_checks, panicked |-> panicked]

\* A panic: the operation unwinds at the overflowing expression.
panic(app) == [app EXCEPT !.panicked = TRUE]

\* `a - b` on usize panics ("attempt to subtract with overflow") when the
\* build checks overflow and the result would be negative.
sub_overflows(app, a, b) == app.overflow_checks /\ a < b

\* ------------------------------------------------------------ operations
\* Mutant of new: the first row is selected even when there are no emails.
new_AlwaysSelectsFirst(n) ==
    [emails |-> [i \in 1..n |-> [uid |-> i, body |-> NoBody]],
     selected |-> Some(0),
     mode |-> List,
     scroll_offset |-> 0,
     visible_items |-> InitialVisibleItems,
     detail_scroll_offset |-> 0]

\* App::new
new(n) == [emails |-> [i \in 1..n |-> [uid |-> i, body |-> NoBody]],
           selected |-> IF n # 0 THEN Some(0) ELSE None,
           mode |-> List,
           scroll_offset |-> 0,
           visible_items |-> InitialVisibleItems,
           detail_scroll_offset |-> 0]

\* App::set_visible_items
set_visible_items(app, height) == [app EXCEPT !.visible_items = height]

\* App::next
next(app) ==
    IF Len(app.emails) = 0 THEN app
    ELSE LET current_selected == unwrap_or(app.selected, 0)
             new_selected == current_selected + 1
         IN  IF current_selected >= Len(app.emails) - 1 THEN app
             ELSE IF new_selected >= app.scroll_offset + app.visible_items
                  THEN IF sub_overflows(app, new_selected, app.visible_items)
                       THEN panic([app EXCEPT !.selected = Some(new_selected)])
                       ELSE [app EXCEPT
                               !.selected = Some(new_selected),
                               !.scroll_offset =
                                   wrapping_sub(new_selected, app.visible_items) + 1]
                  ELSE [app EXCEPT !.selected = Some(new_selected)]

\* Mutant of previous: the window does not follow the cursor upwards.
previous_KeepsWindow(app) ==
    IF Len(app.emails) = 0 THEN app
    ELSE LET current_selected == unwrap_or(app.selected, 0)
         IN  IF current_selected = 0 THEN app
             ELSE [app EXCEPT !.selected = Some(current_selected - 1)]

\* Mutant of previous: the cursor stops at the top row of the window
\* instead of scrolling it.
previous_StopsAtWindowTop(app) ==
    IF Len(app.emails) = 0 THEN app
    ELSE LET current_selected == unwrap_or(app.selected, 0)
         IN  IF current_selected = 0 \/ current_selected = app.scroll_offset
             THEN app
             ELSE [app EXCEPT !.selected = Some(current_selected - 1)]

\* App::previous
previous(app) ==
    IF Len(app.emails) = 0 THEN app
    ELSE LET current_selected == unwrap_or(app.selected, 0)
             new_selected == current_selected - 1
         IN  IF current_selected = 0 THEN app
             ELSE IF new_selected < app.scroll_offset
                  THEN [app EXCEPT !.selected = Some(new_selected),
                                   !.scroll_offset = new_selected]
                  ELSE [app EXCEPT !.selected = Some(new_selected)]

\* Mutant of view_email: the body is fetched on every visit, loaded or not.
view_email_FetchesEveryVisit(app, fetch_result) ==
    IF is_some(app.selected) /\ app.selected < Len(app.emails)
    THEN LET i == app.selected + 1
             fetched ==
                 IF fetch_result # FetchErr
                 THEN [app.emails EXCEPT ![i].body = fetch_result]
                 ELSE app.emails
         IN  [app EXCEPT !.emails = fetched, !.mode = Detail(app.selected)]
    ELSE app

\* Mutant of view_email: the selected < emails.len() check is missing.
view_email_NoRangeCheck(app, fetch_result) ==
    IF is_some(app.selected)
    THEN LET i == app.selected + 1
             fetched ==
                 IF /\ i <= Len(app.emails)
                    /\ app.emails[i].body = NoBody /\ fetch_result # FetchErr
                 THEN [app.emails EXCEPT ![i].body = fetch_result]
                 ELSE app.emails
         IN  [app EXCEPT !.emails = fetched, !.mode = Detail(app.selected)]
    ELSE app

\* Mutant of view_email: a failed fetch leaves the list view open.
view_email_StaysInListOnError(app, fetch_result) ==
    IF is_some(app.selected) /\ app.selected < Len(app.emails)
    THEN LET i == app.selected + 1
         IN  IF app.emails[i].body # NoBody
             THEN [app EXCEPT !.mode = Detail(app.selected)]
             ELSE IF fetch_result # FetchErr
                  THEN [app EXCEPT !.emails[i].body = fetch_result,
                                   !.mode = Detail(app.selected)]
                  ELSE app
    ELSE app

\* App::view_email; fetch_result is what GmailClient::fetch_email_body
\* returns if it is called.
view_email(app, fetch_result) ==
    IF is_some(app.selected) /\ app.selected < Len(app.emails)
    THEN LET i == app.selected + 1
             fetched ==
                 IF app.emails[i].body = NoBody /\ fetch_result # FetchErr
                 THEN [app.emails EXCEPT ![i].body = fetch_result]
                 ELSE app.emails
         IN  [app EXCEPT !.emails = fetched, !.mode = Detail(app.selected)]
    ELSE app

\* Mutant of fetch_request: a record is asked for at most while the list is
\* shown, so a failed fetch is not retried from its detail view.
fetch_request_OnlyFromList(app) ==
    IF /\ is_some(app.selected) /\ app.selected < Len(app.emails)
       /\ app.emails[app.selected + 1].body = NoBody
       /\ app.mode = List
    THEN Some(app.emails[app.selected + 1].uid)
    ELSE None

\* The uid view_email passes to GmailClient::fetch_email_body, or None when
\* it does not call the mail source.
fetch_request(app) ==
    IF /\ is_some(app.selected) /\ app.selected < Len(app.emails)
       /\ app.emails[app.selected + 1].body = NoBody
    THEN Some(app.emails[app.selected + 1].uid)
    ELSE None

\* Mutant of back_to_list: the detail scroll position is kept.
back_to_list_KeepsDetailScroll(app) == [app EXCEPT !.mode = List]

\* Mutant of back_to_list: the list comes back with a fresh ListState.
back_to_list_ClearsSelection(app) ==
    [app EXCEPT !.mode = List, !.detail_scroll_offset = 0, !.selected = None]

\* App::back_to_list
back_to_list(app) == [app EXCEPT !.mode = List, !.detail_scroll_offset = 0]

\* Mutant of goto_page_top: the emails.is_empty() guard is missing.
goto_page_top_NoEmptyGuard(app) ==
    [app EXCEPT !.selected = Some(app.scroll_offset)]

\* Mutant of goto_page_top: jumps to the top of the list, not of the window.
goto_page_top_ResetsWindow(app) ==
    IF Len(app.emails) = 0 THEN app
    ELSE [app EXCEPT !.selected = Some(0), !.scroll_offset = 0]

\* App::goto_page_top
goto_page_top(app) ==
    IF Len(app.emails) = 0 THEN app
    ELSE [app EXCEPT !.selected = Some(app.scroll_offset)]

\* App::goto_page_middle
goto_page_middle(app) ==
    IF Len(app.emails) = 0 THEN app
    ELSE LET window_end == min(app.scroll_offset + app.visible_items, Len(app.emails))
             window_size == wrapping_sub(window_end, app.scroll_offset)
             middle_offset == window_size \div 2
             middle_index == app.scroll_offset + middle_offset
             target_index == min(middle_index, Len(app.emails) - 1)
         IN  IF sub_overflows(app, window_end, app.scroll_offset) THEN panic(app)
             ELSE [app EXCEPT !.selected = Some(target_index)]

\* App::goto_page_bottom
goto_page_bottom(app) ==
    IF Len(app.emails) = 0 THEN app
    ELSE LET last_visible ==
                 min(wrapping_sub(app.scroll_offset + app.visible_items, 1),
                     Len(app.emails) - 1)
         IN  IF sub_overflows(app, app.scroll_offset + app.visible_items, 1)
             THEN panic(app)
             ELSE [app EXCEPT !.selected = Some(last_visible)]

\* Mutant of page_forward: at the last page the cursor goes to the top of
\* the window instead of the last email.
page_forward_StaysAtPageTop(app) ==
    IF Len(app.emails) = 0 THEN app
    ELSE LET new_offset ==
                 min(app.scroll_offset + app.visible_items,
                     saturating_sub(Len(app.emails), app.visible_items))
         IN  [app EXCEPT !.scroll_offset = new_offset,
                         !.selected = Some(new_offset)]

\* App::page_forward
page_forward(app) ==
    IF Len(app.emails) = 0 THEN app
    ELSE LET new_offset ==
                 min(app.scroll_offset + app.visible_items,
                     saturating_sub(Len(app.emails), app.visible_items))
         IN  IF new_offset # app.scroll_offset
             THEN [app EXCEPT !.scroll_offset = new_offset,
                              !.selected = Some(new_offset)]
             ELSE [app EXCEPT !.selected = Some(Len(app.emails) - 1)]

\* page_forward called k times in a row.
RECURSIVE repeat_page_forward(_, _)
repeat_page_forward(app, k) ==
    IF k = 0 THEN app ELSE repeat_page_forward(page_forward(app), k - 1)

\* Mutant of page_backward: when the window cannot move the cursor is left
\* where it is.
page_backward_OnlyWhenScrolled(app) ==
    IF Len(app.emails) = 0 THEN app
    ELSE LET new_offset == saturating_sub(app.scroll_offset, app.visible_items)
         IN  IF new_offset # app.scroll_offset
             THEN [app EXCEPT !.scroll_offset = new_offset,
                              !.selected = Some(new_offset)]
             ELSE app

\* App::page_backward
page_backward(app) ==
    IF Len(app.emails) = 0 THEN app
    ELSE LET new_offset == saturating_sub(app.scroll_offset, app.visible_items)
         IN  [app EXCEPT !.scroll_offset = new_offset,
                         !.selected = Some(new_offset)]

\* App::half_page_forward
half_page_forward(app) ==
    IF Len(app.emails) = 0 THEN app
    ELSE LET half_page == max(app.visible_items \div 2, 1)
             current_selected == unwrap_or(app.selected, 0)
             current_position_in_window ==
                 saturating_sub(current_selected, app.scroll_offset)
             new_scroll_offset ==
                 min(app.scroll_offset + half_page,
                     saturating_sub(Len(app.emails), app.visible_items))
             new_selected ==
                 min(new_scroll_offset + current_position_in_window,
                     Len(app.emails) - 1)
         IN  [app EXCEPT !.scroll_offset = new_scroll_offset,
                         !.selected = Some(new_selected)]

\* Mutant of half_page_backward: the half-page step is visible_items / 2
\* without the minimum of 1.
half_page_backward_NoMinimumStep(app) ==
    IF Len(app.emails) = 0 THEN app
    ELSE LET half_page == app.visible_items \div 2
             current_selected == unwrap_or(app.selected, 0)
             current_position_in_window ==
                 saturating_sub(current_selected, app.scroll_offset)
             new_scroll_offset == saturating_sub(app.scroll_offset, half_page)
             new_selected == new_scroll_offset + current_position_in_window
         IN  [app EXCEPT !.scroll_offset = new_scroll_offset,
                         !.selected = Some(new_selected)]

\* App::half_page_backward
half_page_backward(app) ==
    IF Len(app.emails) = 0 THEN app
    ELSE LET half_page == max(app.visible_items \div 2, 1)
             current_selected == unwrap_or(app.selected, 0)
             current_position_in_window ==
                 saturating_sub(current_selected, app.scroll_offset)
             new_scroll_offset == saturating_sub(app.scroll_offset, half_page)
             new_selected == new_scroll_offset + current_position_in_window
         IN  [app EXCEPT !.scroll_offset = new_scroll_offset,
                         !.selected = Some(new_selected)]

\* App::line_forward
line_forward(app) ==
    IF Len(app.emails) = 0 THEN app
    ELSE LET current_selected == unwrap_or(app.selected, 0)
             cursor_at_top == current_selected = app.scroll_offset
             new_scroll_offset ==
                 min(app.scroll_offset + 1,
                     saturating_sub(Len(app.emails), app.visible_items))
         IN  IF /\ cursor_at_top
                /\ new_scroll_offset > current_selected
                /\ current_selected < Len(app.emails) - 1
             THEN [app EXCEPT !.scroll_offset = new_scroll_offset,
                              !.selected = Some(current_selected + 1)]
             ELSE [app EXCEPT !.scroll_offset = new_scroll_offset]

\* App::line_backward
line_backward(app) ==
    IF Len(app.emails) = 0 THEN app
    ELSE LET current_selected == unwrap_or(app.selected, 0)
             cursor_at_bottom ==
                 current_selected =
                     min(wrapping_sub(app.scroll_offset + app.visible_items, 1),
                         Len(app.emails) - 1)
             new_scroll_offset == saturating_sub(app.scroll_offset, 1)
         IN  IF sub_overflows(app, app.scroll_offset + app.visible_items, 1)
             THEN panic(app)
             ELSE IF /\ cursor_at_bottom
                     /\ new_scroll_offset < current_selected
                     /\ current_selected > 0
                  THEN [app EXCEPT !.scroll_offset = new_scroll_offset,
                                   !.selected = Some(current_selected - 1)]
                  ELSE [app EXCEPT !.scroll_offset = new_scroll_offset]

\* App::detail_scroll_down
detail_scroll_down(app) ==
    [app EXCEPT !.detail_scroll_offset = saturating_add_u16(@, 1)]

\* App::detail_scroll_up
detail_scroll_up(app) ==
    [app EXCEPT !.detail_scroll_offset = saturating_sub(@, 1)]

\* App::detail_line_forward
detail_line_forward(app) ==
    [app EXCEPT !.detail_scroll_offset = saturating_add_u16(@, 1)]

\* App::detail_line_backward
detail_line_backward(app) ==
    [app EXCEPT !.detail_scroll_offset = saturating_sub(@, 1)]

\* --------------------------------------------------------------- actions
\* The operations whose call is remembered for one more call, so that a
\* forward motion followed by its backward motion, or a repeated
\* page_forward, can be recognised.
Remembered == {"next", "half_page_forward", "page_forward"}

\* What the history variable `pre` remembers: the fields before the call,
\* and the call before it when that was a remembered one.
Snapshot == [selected |-> selected, scroll_offset |-> scroll_offset,
             visible_items |-> visible_items, mode |-> mode,
             detail_scroll_offset |-> detail_scroll_offset,
             op |-> IF op \in Remembered THEN op ELSE "other"]

\* The effect of a call of a public method: the App becomes `result`, and
\* the mail source is asked for the body of `uid` (None: it is not called).
Apply(name, result, uid) ==
    /\ ~panicked
    /\ requested' = uid
    /\ emails' = result.emails
    /\ selected' = result.selected
    /\ mode' = result.mode
    /\ scroll_offset' = result.scroll_offset
    /\ visible_items' = result.visible_items
    /\ detail_scroll_offset' = result.detail_scroll_offset
    /\ panicked' = result.panicked
    /\ op' = name
    /\ pre' = Snapshot
    /\ UNCHANGED overflow_checks

\* A call of a public method made directly (as the unit tests do), outside
\* the event loop.
CallFetching(name, result, uid) ==
    /\ Apply(name, result, uid)
    /\ UNCHANGED <<pc, frame_height, twin>>

\* A call of a public method that never reaches the mail source.
Call(name, result) == CallFetching(name, result, None)

\* let app = App::new(client, emails), for n emails and either build.
Start(n, checks) ==
    /\ emails = new(n).emails
    /\ selected = new(n).selected
    /\ mode = new(n).mode
    /\ scroll_offset = new(n).scroll_offset
    /\ visible_items = new(n).visible_items
    /\ detail_scroll_offset = new(n).detail_scroll_offset
    /\ overflow_checks = checks
    /\ panicked = FALSE
    /\ requested = None
    /\ pc = "draw"
    /\ frame_height = None
    /\ op = "new"
    /\ pre = [selected |-> new(n).selected,
              scroll_offset |-> new(n).scroll_offset,
              visible_items |-> new(n).visible_items,
              mode |-> new(n).mode,
              detail_scroll_offset |-> new(n).detail_scroll_offset,
              op |-> "other"]

\* Outside the event loop there is no second run.
NoTwin == <<>>

Init ==
    /\ \E n \in 0..MaxTotal, checks \in BOOLEAN : Start(n, checks)
    /\ twin = NoTwin

AppInit ==
    /\ \E n \in 0..MaxAppTotal, checks \in BOOLEAN : Start(n, checks)
    /\ twin = NoTwin

SetVisibleItems ==
    \E height \in 0..MaxHeight :
        Call("set_visible_items", set_visible_items(App, height))

DoNext == Call("next", next(App))

DoPrevious == Call("previous", previous(App))

ViewEmail ==
    \E fetch_result \in FetchResults :
        CallFetching("view_email", view_email(App, fetch_result),
                     fetch_request(App))

BackToList == Call("back_to_list", back_to_list(App))

GotoPageTop == Call("goto_page_top", goto_page_top(App))

GotoPageMiddle == Call("goto_page_middle", goto_page_middle(App))

GotoPageBottom == Call("goto_page_bottom", goto_page_bottom(App))

PageForward == Call("page_forward", page_forward(App))

PageBackward == Call("page_backward", page_backward(App))

HalfPageForward == Call("half_page_forward", half_page_forward(App))

HalfPageBackward == Call("half_page_backward", half_page_backward(App))

LineForward == Call("line_forward", line_forward(App))

LineBackward == Call("line_backward", line_backward(App))

DetailScrollDown ==
    /\ detail_scroll_offset < MaxDetailScroll
    /\ Call("detail_scroll_down", detail_scroll_down(App))

DetailScrollUp == Call("detail_scroll_up", detail_scroll_up(App))

DetailLineForward ==
    /\ detail_scroll_offset < MaxDetailScroll
    /\ Call("detail_line_forward", detail_line_forward(App))

DetailLineBackward == Call("detail_line_backward", detail_line_backward(App))

\* The list viewport: any sequence of list motions and height changes.
Next ==
    \/ SetVisibleItems
    \/ DoNext
    \/ DoPrevious
    \/ GotoPageTop
    \/ GotoPageMiddle
    \/ GotoPageBottom
    \/ PageForward
    \/ PageBackward
    \/ HalfPageForward
    \/ HalfPageBackward
    \/ LineForward
    \/ LineBackward

Spec == Init /\ [][Next]_vars

\* The whole App: any sequence of calls of its public methods.
AppSetVisibleItems ==
    \E height \in 0..MaxAppHeight :
        Call("set_visible_items", set_visible_items(App, height))

AppNext ==
    \/ AppSetVisibleItems
    \/ DoNext
    \/ DoPrevious
    \/ GotoPageTop
    \/ GotoPageMiddle
    \/ GotoPageBottom
    \/ PageForward
    \/ PageBackward
    \/ HalfPageForward
    \/ HalfPageBackward
    \/ LineForward
    \/ LineBackward
    \/ ViewEmail
    \/ BackToList
    \/ DetailScrollDown
    \/ DetailScrollUp
    \/ DetailLineForward
    \/ DetailLineBackward

AppSpec == AppInit /\ [][AppNext]_vars

\* ---------------------------------------------------------- fixed height
\* App::new with at least one email.
FixedInit ==
    /\ \E n \in 1..MaxTotal, checks \in BOOLEAN : Start(n, checks)
    /\ twin = NoTwin

\* The one set_visible_items call that follows App::new (as in the unit
\* tests), with a height of at least one row.
SetHeightOnce ==
    /\ op = "new"
    /\ \E height \in 1..MaxHeight :
        Call("set_visible_items", set_visible_items(App, height))

FixedNext ==
    \/ SetHeightOnce
    \/ DoNext
    \/ DoPrevious
    \/ GotoPageTop
    \/ GotoPageMiddle
    \/ GotoPageBottom
    \/ PageForward
    \/ PageBackward
    \/ HalfPageForward
    \/ HalfPageBackward
    \/ LineForward
    \/ LineBackward

\* The list viewport at a height that no longer changes once a motion has run.
FixedSpec == FixedInit /\ [][FixedNext]_vars

\* ------------------------------------------------------------ event loop
\* The key events run_app tells apart: a KeyCode and whether the CONTROL
\* modifier is held. "x", "Tab" and "Backspace" stand for the keys that no
\* arm of the match names.
KeyCodes == {"j", "k", "n", "p", "f", "b", "d", "u", "e", "y", "H", "M", "L",
             "q", "x", "Down", "Up", "Enter", "Esc", "Tab", "Backspace"}

Keys == [code : KeyCodes, ctrl : BOOLEAN]

\* Mutant of binding: the detail bindings are used in every mode.
binding_DetailArmsOnly(m, key) ==
    CASE key.code \in {"j", "Down"} -> "detail_scroll_down"
      [] key.code \in {"k", "Up"} -> "detail_scroll_up"
      [] key.code \in {"n", "e"} /\ key.ctrl -> "detail_line_forward"
      [] key.code \in {"p", "y"} /\ key.ctrl -> "detail_line_backward"
      [] key.code \in {"q", "Esc"} -> "back_to_list"
      [] OTHER -> "ignored"

\* Mutant of binding: 'q' and Esc leave the program from a detail view too.
binding_QuitFromDetail(m, key) ==
    IF m = List
    THEN CASE key.code \in {"j", "Down"} -> "next"
           [] key.code = "n" /\ key.ctrl -> "next"
           [] key.code \in {"k", "Up"} -> "previous"
           [] key.code = "p" /\ key.ctrl -> "previous"
           [] key.code = "f" /\ key.ctrl -> "page_forward"
           [] key.code = "b" /\ key.ctrl -> "page_backward"
           [] key.code = "d" /\ key.ctrl -> "half_page_forward"
           [] key.code = "u" /\ key.ctrl -> "half_page_backward"
           [] key.code = "e" /\ key.ctrl -> "line_forward"
           [] key.code = "y" /\ key.ctrl -> "line_backward"
           [] key.code = "H" -> "goto_page_top"
           [] key.code = "M" -> "goto_page_middle"
           [] key.code = "L" -> "goto_page_bottom"
           [] key.code = "Enter" -> "view_email"
           [] key.code \in {"q", "Esc"} -> "quit"
           [] OTHER -> "ignored"
    ELSE CASE key.code \in {"j", "Down"} -> "detail_scroll_down"
           [] key.code \in {"k", "Up"} -> "detail_scroll_up"
           [] key.code \in {"n", "e"} /\ key.ctrl -> "detail_line_forward"
           [] key.code \in {"p", "y"} /\ key.ctrl -> "detail_line_backward"
           [] key.code \in {"q", "Esc"} -> "quit"
           [] OTHER -> "ignored"

\* Mutant of binding: in the list, H and L are exchanged.
binding_TopBottomSwapped(m, key) ==
    IF m = List
    THEN CASE key.code \in {"j", "Down"} -> "next"
           [] key.code = "n" /\ key.ctrl -> "next"
           [] key.code \in {"k", "Up"} -> "previous"
           [] key.code = "p" /\ key.ctrl -> "previous"
           [] key.code = "f" /\ key.ctrl -> "page_forward"
           [] key.code = "b" /\ key.ctrl -> "page_backward"
           [] key.code = "d" /\ key.ctrl -> "half_page_forward"
           [] key.code = "u" /\ key.ctrl -> "half_page_backward"
           [] key.code = "e" /\ key.ctrl -> "line_forward"
           [] key.code = "y" /\ key.ctrl -> "line_backward"
           [] key.code = "H" -> "goto_page_bottom"
           [] key.code = "M" -> "goto_page_middle"
           [] key.code = "L" -> "goto_page_top"
           [] key.code = "Enter" -> "view_email"
           [] key.code \in {"q", "Esc"} -> "quit"
           [] OTHER -> "ignored"
    ELSE CASE key.code \in {"j", "Down"} -> "detail_scroll_down"
           [] key.code \in {"k", "Up"} -> "detail_scroll_up"
           [] key.code \in {"n", "e"} /\ key.ctrl -> "detail_line_forward"
           [] key.code \in {"p", "y"} /\ key.ctrl -> "detail_line_backward"
           [] key.code \in {"q", "Esc"} -> "back_to_list"
           [] OTHER -> "ignored"

\* The match of run_app: the method a key is bound to in mode m, "quit" for
\* return Ok(()), "ignored" for the `_ => {}` arm.
binding(m, key) ==
    IF m = List
    THEN CASE key.code \in {"j", "Down"} -> "next"
           [] key.code = "n" /\ key.ctrl -> "next"
           [] key.code \in {"k", "Up"} -> "previous"
           [] key.code = "p" /\ key.ctrl -> "previous"
           [] key.code = "f" /\ key.ctrl -> "page_forward"
           [] key.code = "b" /\ key.ctrl -> "page_backward"
           [] key.code = "d" /\ key.ctrl -> "half_page_forward"
           [] key.code = "u" /\ key.ctrl -> "half_page_backward"
           [] key.code = "e" /\ key.ctrl -> "line_forward"
           [] key.code = "y" /\ key.ctrl -> "line_backward"
           [] key.code = "H" -> "goto_page_top"
           [] key.code = "M" -> "goto_page_middle"
           [] key.code = "L" -> "goto_page_bottom"
           [] key.code = "Enter" -> "view_email"
           [] key.code \in {"q", "Esc"} -> "quit"
           [] OTHER -> "ignored"
    ELSE CASE key.code \in {"j", "Down"} -> "detail_scroll_down"
           [] key.code \in {"k", "Up"} -> "detail_scroll_up"
           [] key.code \in {"n", "e"} /\ key.ctrl -> "detail_line_forward"
           [] key.code \in {"p", "y"} /\ key.ctrl -> "detail_line_backward"
           [] key.code \in {"q", "Esc"} -> "back_to_list"
           [] OTHER -> "ignored"

\* The App after the method called `name`; fetch_result is what the mail
\* source returns if view_email calls it.
method(name, app, fetch_result) ==
    CASE name = "next" -> next(app)
      [] name = "previous" -> previous(app)
      [] name = "page_forward" -> page_forward(app)
      [] name = "page_backward" -> page_backward(app)
      [] name = "half_page_forward" -> half_page_forward(app)
      [] name = "half_page_backward" -> half_page_backward(app)
      [] name = "line_forward" -> line_forward(app)
      [] name = "line_backward" -> line_backward(app)
      [] name = "goto_page_top" -> goto_page_top(app)
      [] name = "goto_page_middle" -> goto_page_middle(app)
      [] name = "goto_page_bottom" -> goto_page_bottom(app)
      [] name = "view_email" -> view_email(app, fetch_result)
      [] name = "back_to_list" -> back_to_list(app)
      [] name = "detail_scroll_down" -> detail_scroll_down(app)
      [] name = "detail_scroll_up" -> detail_scroll_up(app)
      [] name = "detail_line_forward" -> detail_line_forward(app)
      [] name = "detail_line_backward" -> detail_line_backward(app)
      [] OTHER -> app

\* The App after run_app has handled a press of `key`.
handle_key(app, key, fetch_result) ==
    method(binding(app.mode, key), app, fetch_result)

\* Mutant of draw: the list-area height is not stored.
draw_KeepsPlaceholder(app, height) == app

\* ui(): render_list stores the list-area height, render_detail only reads.
draw(app, height) ==
    IF app.mode = List THEN set_visible_items(app, height) ELSE app

\* The twin run takes the same step unless it has already panicked.
TwinStep(result) == twin' = IF twin.panicked THEN twin ELSE result

\* Both runs start from the same App::new(client, emails).
RunInit ==
    /\ \E n \in 0..MaxRunTotal, checks \in BOOLEAN : Start(n, checks)
    /\ twin = App

\* terminal.draw(|f| ui(f, &mut app))
Draw ==
    /\ pc = "draw"
    /\ \E height \in 0..MaxRunHeight :
        /\ Apply(IF mode = List THEN "set_visible_items" ELSE "render_detail",
                 draw(App, height), None)
        /\ TwinStep(draw(twin, height))
        /\ frame_height' = IF mode = List THEN Some(height) ELSE frame_height
    /\ pc' = "event"

\* A key press bound to a method, or to nothing, in the current mode.
KeyPress ==
    /\ pc = "event"
    /\ \E key \in Keys :
        LET name == binding(mode, key)
            twin_name == binding(twin.mode, key)
            fetches == IF "view_email" \in {name, twin_name}
                       THEN FetchResults ELSE {FetchErr}
        IN  /\ name # "quit"
            /\ name \in {"detail_scroll_down", "detail_line_forward"}
               => detail_scroll_offset < MaxDetailScroll
            /\ \E fetch_result \in fetches, twin_fetch_result \in fetches :
                /\ Apply(name, method(name, App, fetch_result),
                         IF name = "view_email" THEN fetch_request(App)
                         ELSE None)
                /\ TwinStep(method(twin_name, twin, twin_fetch_result))
    /\ pc' = "draw"
    /\ UNCHANGED frame_height

\* 'q' or Esc in the list: return Ok(()).
Quit ==
    /\ pc = "event"
    /\ \E key \in Keys : binding(mode, key) = "quit"
    /\ Apply("quit", App, None)
    /\ pc' = "done"
    /\ UNCHANGED <<frame_height, twin>>

\* An event that is not a key press (a resize, a key release).
OtherEvent ==
    /\ pc = "event"
    /\ Apply("no_key", App, None)
    /\ pc' = "draw"
    /\ UNCHANGED <<frame_height, twin>>

\* terminal.draw(..)? or event::read()? fails: return Err.
IoError ==
    /\ pc \in {"draw", "event"}
    /\ ~panicked
    /\ pc' = "failed"
    /\ UNCHANGED <<emails, selected, mode, scroll_offset, visible_items,
                   detail_scroll_offset, overflow_checks, panicked, requested,
                   frame_height, twin, op, pre>>

RunNext ==
    \/ Draw
    \/ KeyPress
    \/ Quit
    \/ OtherEvent
    \/ IoError

\* The program as run_app drives it from a fresh App.
RunSpec == RunInit /\ [][RunNext]_vars

\* ---------------------------------------------------------- detail view
\* Detail scroll offsets a session can have reached when the detail methods
\* are called: the smallest and the largest values of the u16.
DetailOffsets == {0, 1, U16_MAX - 1, U16_MAX}

\* An open detail view of a single email, scrolled to one of DetailOffsets.
DetailInit ==
    \E d \in DetailOffsets, checks \in BOOLEAN :
        /\ emails = new(1).emails
        /\ selected = Some(0)
        /\ mode = Detail(0)
        /\ scroll_offset = 0
        /\ visible_items = InitialVisibleItems
        /\ detail_scroll_offset = d
        /\ overflow_checks = checks
        /\ panicked = FALSE
        /\ requested = None
        /\ pc = "draw"
        /\ frame_height = None
        /\ twin = NoTwin
        /\ op = "other"
        /\ pre = [selected |-> Some(0), scroll_offset |-> 0,
                  visible_items |-> InitialVisibleItems, mode |-> Detail(0),
                  detail_scroll_offset |-> d, op |-> "other"]

ScrollDown == Call("detail_scroll_down", detail_scroll_down(App))

ScrollUp == Call("detail_scroll_up", detail_scroll_up(App))

ScrollLineForward == Call("detail_line_forward", detail_line_forward(App))

ScrollLineBackward == Call("detail_line_backward", detail_line_backward(App))

DetailNext ==
    \/ ScrollDown
    \/ ScrollUp
    \/ ScrollLineForward
    \/ ScrollLineBackward

\* The detail viewport: any sequence of the four detail scroll methods.
DetailSpec == DetailInit /\ [][DetailNext]_vars

\* ---------------------------------------------------------------- claims
\* C1: in every state reachable by list motions and height changes,
\* 0 <= scroll_offset <= max(0, total - visible_items).
C1_ScrollOffsetInRange ==
    /\ 0 <= scroll_offset
    /\ scroll_offset <= max(0, total - visible_items)

\* C2: for a non-empty list the cursor is inside the visible window in every
\* state except the one immediately following a height change.
C2_CursorInsideWindow ==
    (total > 0 /\ op # "set_visible_items") =>
        /\ scroll_offset <= selected
        /\ selected < scroll_offset + visible_items

\* C3: for a non-empty list, selected is Some(i) with 0 <= i < total in every
\* reachable state, for every window height including 0.
C3_SelectedValid ==
    total > 0 => (is_some(selected) /\ 0 <= selected /\ selected < total)

\* C4: a height change to new_h re-clamps scroll_offset to
\* min(scroll_offset, max(0, total - new_h)) and clamps selected into
\* [scroll_offset, scroll_offset + new_h) when it is outside, leaving it
\* unchanged otherwise.
C4_ResizeReclamps ==
    (op = "set_visible_items" /\ total > 0) =>
        LET o == min(pre.scroll_offset, max(0, total - visible_items))
            hi == o + visible_items - 1
        IN  /\ scroll_offset = o
            /\ selected = IF pre.selected < o THEN o
                          ELSE IF pre.selected > hi THEN hi
                          ELSE pre.selected

\* C5: visible_items is a positive integer in every reachable state (a
\* height of 0 is floored to 1).
C5_VisibleItemsPositive == visible_items >= 1

\* C6: no list-viewport operation fails: no unsigned subtraction of a motion
\* goes below zero, for every total, height and reachable cursor and offset.
C6_NoOperationFails == ~panicked

\* C7: on an empty list every list motion and view_email is a no-op:
\* selected stays None, scroll_offset stays 0, mode stays List, no panic.
C7_EmptyListNoOp ==
    total = 0 =>
        /\ selected = None
        /\ scroll_offset = 0
        /\ mode = List
        /\ ~panicked

\* C7 witness: on an empty list with a zero-height window, view_email has
\* just been called after next.
C7_Witness ==
    /\ total = 0
    /\ visible_items = 0
    /\ op = "view_email"
    /\ pre.op = "next"

\* C8: next sets selected to min(selected + 1, total - 1); scroll_offset
\* becomes (selected + 1) - visible_items + 1 when selected + 1 >=
\* scroll_offset + visible_items and is unchanged otherwise; at the last item
\* next changes nothing.
C8_NextContract ==
    (op = "next" /\ total > 0) =>
        IF pre.selected = total - 1
        THEN selected = pre.selected /\ scroll_offset = pre.scroll_offset
        ELSE /\ selected = min(pre.selected + 1, total - 1)
             /\ scroll_offset =
                    IF pre.selected + 1 >= pre.scroll_offset + pre.visible_items
                    THEN (pre.selected + 1) - pre.visible_items + 1
                    ELSE pre.scroll_offset

C10_NextPreviousRoundTrip ==
    [][(/\ op = "next"
        /\ 0 < pre.selected
        /\ pre.selected < total - 1
        /\ op' = "previous") => selected' = pre.selected]_vars

\* C10 witness: previous has just been called right after a next that moved
\* the cursor from an interior position.
C10_Witness ==
    /\ op = "previous"
    /\ pre.op = "next"
    /\ 2 <= pre.selected
    /\ pre.selected < total - 1
    /\ selected = pre.selected - 1

\* C11: when next moves the cursor off the last visible row and scrolls the
\* window down by one, an immediately following previous returns both
\* selected and scroll_offset to their values before the next.
C11_NextPreviousRestoresWindow ==
    [][(/\ op = "next"
        /\ pre.selected = pre.scroll_offset + pre.visible_items - 1
        /\ selected = pre.selected + 1
        /\ scroll_offset = pre.scroll_offset + 1
        /\ op' = "previous")
       => (selected' = pre.selected /\ scroll_offset' = pre.scroll_offset)]_vars

\* C12: page_forward computes o' = min(scroll_offset + visible_items,
\* max(0, total - visible_items)); if o' differs from scroll_offset both
\* scroll_offset and selected become o', otherwise scroll_offset is
\* unchanged and selected becomes total - 1.
C12_PageForwardContract ==
    (op = "page_forward" /\ total > 0) =>
        LET o == min(pre.scroll_offset + pre.visible_items,
                     max(0, total - pre.visible_items))
        IN  IF o # pre.scroll_offset
            THEN scroll_offset = o /\ selected = o
            ELSE scroll_offset = pre.scroll_offset /\ selected = total - 1

\* C12 witness: on a list shorter than the window page_forward has moved the
\* cursor from an earlier item to the last one and left scroll_offset at 0.
C12_Witness ==
    /\ op = "page_forward"
    /\ 1 < total
    /\ total < visible_items
    /\ pre.selected < total - 1
    /\ selected = total - 1
    /\ scroll_offset = 0

\* C13: from any reachable state of a non-empty list, repeating page_forward
\* reaches after finitely many calls (at most total + 1) a state that a
\* further page_forward does not change, and there selected = total - 1.
C13_PageForwardReachesLast ==
    (total > 0 /\ ~panicked) =>
        LET last == repeat_page_forward(App, total + 1)
        IN  /\ page_forward(last) = last
            /\ last.selected = total - 1

\* C13 witness: page_forward has been called twice in a row on a scrolled
\* list, the second call changed nothing and the cursor is on the last item.
C13_Witness ==
    /\ op = "page_forward"
    /\ pre.op = "page_forward"
    /\ selected = pre.selected
    /\ scroll_offset = pre.scroll_offset
    /\ scroll_offset > 0
    /\ selected = total - 1

\* C14: page_backward sets scroll_offset to max(scroll_offset -
\* visible_items, 0) and selected to the new scroll_offset; when
\* scroll_offset is already 0 it stays 0 and the cursor goes to item 0.
C14_PageBackwardContract ==
    (op = "page_backward" /\ total > 0) =>
        /\ scroll_offset = max(pre.scroll_offset - pre.visible_items, 0)
        /\ selected = scroll_offset
        /\ (pre.scroll_offset = 0 => (scroll_offset = 0 /\ selected = 0))

\* C14 witness: page_backward has moved the window up by a whole page to a
\* non-zero offset and put the cursor, which was lower, on its top row.
C14_Witness ==
    /\ op = "page_backward"
    /\ pre.visible_items >= 1
    /\ pre.scroll_offset > pre.visible_items
    /\ pre.selected > pre.scroll_offset
    /\ pre.selected < pre.scroll_offset + pre.visible_items
    /\ scroll_offset = pre.scroll_offset - pre.visible_items
    /\ selected = scroll_offset

\* C15: goto_page_top, goto_page_middle and goto_page_bottom never change
\* scroll_offset, visible_items, mode or detail_scroll_offset.
C15_GotoPageFrame ==
    op \in {"goto_page_top", "goto_page_middle", "goto_page_bottom"} =>
        /\ scroll_offset = pre.scroll_offset
        /\ visible_items = pre.visible_items
        /\ mode = pre.mode
        /\ detail_scroll_offset = pre.detail_scroll_offset

\* C15 witness: goto_page_bottom has moved the cursor while the App was in
\* detail mode with a scrolled detail view.
C15_Witness ==
    /\ op = "goto_page_bottom"
    /\ selected # pre.selected
    /\ mode # List
    /\ detail_scroll_offset > 0
    /\ ~panicked

\* C16: goto_page_top sets selected to scroll_offset and goto_page_bottom
\* sets selected to min(scroll_offset + visible_items - 1, total - 1).
C16_GotoPageTopBottomContract ==
    /\ (op = "goto_page_top" /\ total > 0) => selected = pre.scroll_offset
    /\ (op = "goto_page_bottom" /\ total > 0) =>
           selected = min(pre.scroll_offset + pre.visible_items - 1, total - 1)

\* C17: goto_page_middle sets selected to scroll_offset + ((min(scroll_offset
\* + visible_items, total) - scroll_offset) / 2), clamped to total - 1, and
\* the result lies inside [scroll_offset, scroll_offset + visible_items).
C17_GotoPageMiddleContract ==
    (op = "goto_page_middle" /\ total > 0) =>
        LET window_end == min(pre.scroll_offset + pre.visible_items, total)
            middle == pre.scroll_offset
                          + ((window_end - pre.scroll_offset) \div 2)
        IN  /\ selected = min(middle, total - 1)
            /\ pre.scroll_offset <= selected
            /\ selected < pre.scroll_offset + pre.visible_items

\* C18: half_page_forward sets scroll_offset to o' = min(scroll_offset +
\* max(visible_items / 2, 1), max(0, total - visible_items)) and selected to
\* min(o' + (selected - scroll_offset), total - 1); the cursor keeps its
\* on-screen row whenever it was inside the window.
C18_HalfPageForwardContract ==
    (op = "half_page_forward" /\ total > 0) =>
        LET half_page == max(pre.visible_items \div 2, 1)
            o == min(pre.scroll_offset + half_page,
                     max(0, total - pre.visible_items))
        IN  /\ scroll_offset = o
            /\ selected = min(o + (pre.selected - pre.scroll_offset), total - 1)
            /\ (/\ pre.scroll_offset <= pre.selected
                /\ pre.selected < pre.scroll_offset + pre.visible_items)
               => selected - scroll_offset = pre.selected - pre.scroll_offset

\* C19: half_page_backward sets scroll_offset to o' = max(scroll_offset -
\* max(visible_items / 2, 1), 0) and selected to o' + (selected -
\* scroll_offset), preserving the cursor's on-screen row, and the resulting
\* selected is always a valid index.
C19_HalfPageBackwardContract ==
    (op = "half_page_backward" /\ total > 0) =>
        LET half_page == max(pre.visible_items \div 2, 1)
            o == max(pre.scroll_offset - half_page, 0)
        IN  /\ scroll_offset = o
            /\ selected = o + (pre.selected - pre.scroll_offset)
            /\ selected - scroll_offset = pre.selected - pre.scroll_offset
            /\ 0 <= selected /\ selected < total

\* C20: whenever half_page_forward is not clamped (scroll_offset +
\* max(visible_items / 2, 1) <= total - visible_items) and the cursor is
\* inside the window, half_page_forward followed by half_page_backward
\* returns selected and scroll_offset to their original values, also for
\* small windows where the half-page step is the minimum 1.
C20_HalfPageRoundTrip ==
    [][(/\ op = "half_page_forward"
        /\ pre.scroll_offset + max(pre.visible_items \div 2, 1)
               <= total - pre.visible_items
        /\ pre.scroll_offset <= pre.selected
        /\ pre.selected < pre.scroll_offset + pre.visible_items
        /\ op' = "half_page_backward")
       => (selected' = pre.selected /\ scroll_offset' = pre.scroll_offset)]_vars

\* A small window (half-page step 1) with the cursor on its second row has
\* been scrolled forward unclamped and back again.
C20_Witness ==
    /\ op = "half_page_backward" /\ pre.op = "half_page_forward"
    /\ visible_items = 3 /\ pre.visible_items = 3
    /\ scroll_offset + 1 <= total - visible_items
    /\ selected = scroll_offset + 1
    /\ pre.scroll_offset = scroll_offset + 1
    /\ pre.selected = selected + 1

\* C21: line_forward sets scroll_offset to min(scroll_offset + 1,
\* max(0, total - visible_items)) and leaves selected unchanged, except that
\* when the cursor was on the top row and the window actually advanced,
\* selected becomes selected + 1; when scroll_offset is already at its
\* maximum, neither scroll_offset nor selected changes.
C21_LineForwardContract ==
    (op = "line_forward" /\ total > 0) =>
        LET max_scroll == max(0, total - pre.visible_items)
            o == min(pre.scroll_offset + 1, max_scroll)
        IN  /\ scroll_offset = o
            /\ selected = IF pre.selected = pre.scroll_offset
                             /\ o > pre.scroll_offset
                          THEN pre.selected + 1
                          ELSE pre.selected
            /\ pre.scroll_offset = max_scroll
               => (scroll_offset = pre.scroll_offset /\ selected = pre.selected)

\* C22: line_backward sets scroll_offset to max(scroll_offset - 1, 0) and
\* leaves selected unchanged, except that when the cursor was on the bottom
\* row of the window and the window actually receded, selected becomes
\* selected - 1; whenever scroll_offset is already 0, neither scroll_offset
\* nor selected changes, for every cursor position.
C22_LineBackwardContract ==
    (op = "line_backward" /\ total > 0) =>
        LET o == max(pre.scroll_offset - 1, 0)
            bottom_row == min(pre.scroll_offset + pre.visible_items - 1,
                              total - 1)
        IN  /\ scroll_offset = o
            /\ selected = IF pre.selected = bottom_row /\ o < pre.scroll_offset
                          THEN pre.selected - 1
                          ELSE pre.selected
            /\ pre.scroll_offset = 0
               => (scroll_offset = 0 /\ selected = pre.selected)

\* C23: view_email in List mode with selected = Some(i) always ends in mode
\* Detail(i), whether or not the body was loaded and whether or not the fetch
\* succeeds; when selected is None (empty list) the mode stays List.
C23_ViewEmailEntersDetail ==
    (op = "view_email" /\ pre.mode = List) =>
        IF is_some(pre.selected)
        THEN mode = Detail(pre.selected)
        ELSE mode = List

\* C24: view_email resets the detail viewport: immediately after it
\* transitions to Detail(i), detail_scroll_offset is 0, whatever its value
\* was before the call.
C24_ViewEmailResetsDetailScroll ==
    (/\ op = "view_email"
     /\ is_some(pre.selected) /\ pre.selected < total
     /\ mode = Detail(pre.selected))
    => detail_scroll_offset = 0

\* C25: back_to_list sets mode to List and detail_scroll_offset to 0 and
\* changes nothing else: selected, scroll_offset, visible_items and all
\* bodies are unchanged.
C25_BackToListFrame ==
    [][op' = "back_to_list"
       => /\ mode' = List
          /\ detail_scroll_offset' = 0
          /\ selected' = selected
          /\ scroll_offset' = scroll_offset
          /\ visible_items' = visible_items
          /\ emails' = emails]_vars

\* back_to_list has left a detail view that was scrolled and whose body had
\* been fetched.
C25_Witness ==
    /\ op = "back_to_list"
    /\ pre.mode # List /\ pre.detail_scroll_offset > 0
    /\ mode = List /\ detail_scroll_offset = 0
    /\ \E i \in 1..total : emails[i].body # NoBody

\* C26: each record's body changes at most once, from None to Some(payload),
\* and only during a view_email on that record; once it is Some, no later
\* operation changes it and no later view_email on that record calls the
\* mail source again.
C26_BodyFetchedOnce ==
    [][/\ Len(emails') = Len(emails)
       /\ \A i \in 1..Len(emails) :
            /\ emails'[i].uid = emails[i].uid
            /\ emails'[i].body # emails[i].body
               => /\ emails[i].body = NoBody
                  /\ emails'[i].body \in Payloads
                  /\ op' = "view_email"
                  /\ selected = Some(i - 1)
                  /\ requested' = Some(emails[i].uid)
            /\ emails[i].body # NoBody
               => /\ emails'[i].body = emails[i].body
                  /\ requested' # Some(emails[i].uid)]_vars

\* A view_email on a record whose body was already loaded: the detail view
\* opens and the mail source is not called.
C26_Witness ==
    /\ op = "view_email"
    /\ is_some(selected) /\ selected < total
    /\ mode = Detail(selected)
    /\ emails[selected + 1].body \in Payloads
    /\ requested = None

\* C27: when the body fetch in view_email fails, the record's body remains
\* None, no error is surfaced, the mode still becomes Detail(i), and
\* selected and scroll_offset are unchanged; a later view_email on the same
\* record requests the body from the mail source again.
C27_FailedFetch ==
    [][(/\ op' = "view_email"
        /\ is_some(selected) /\ selected < total
        /\ emails[selected + 1].body = NoBody)
       => /\ requested' = Some(emails[selected + 1].uid)
          /\ emails' # emails
             \/ /\ emails' = emails
                /\ ~panicked'
                /\ mode' = Detail(selected)
                /\ selected' = selected
                /\ scroll_offset' = scroll_offset]_vars

\* A fetch failed, and the next view_email on the same record asked the mail
\* source again and failed again: the body is still None, the detail view is
\* open.
C27_Witness ==
    /\ op = "view_email"
    /\ is_some(selected) /\ selected < total
    /\ pre.mode = Detail(selected) /\ pre.selected = selected
    /\ mode = Detail(selected)
    /\ requested = Some(emails[selected + 1].uid)
    /\ emails[selected + 1].body = NoBody

\* C30: in every reachable state where mode is Detail(index), index is a
\* valid index into the emails (index < total).
C30_DetailIndexValid ==
    mode # List => (0 <= mode[2] /\ mode[2] < total)

\* A detail view is open while the cursor has been moved out of range behind
\* it, and a further view_email has left the view on the valid index.
C30_Witness ==
    /\ op = "view_email"
    /\ mode # List /\ mode[2] < total
    /\ selected >= total

\* C28: fetch outcomes never influence navigation state: two runs started
\* from the same emails that receive the same key presses and window heights
\* but arbitrary different fetch outcomes have equal mode, selected,
\* scroll_offset, visible_items and detail_scroll_offset after every step.
C28_FetchOutcomeNonInterference ==
    /\ twin.mode = mode
    /\ twin.selected = selected
    /\ twin.scroll_offset = scroll_offset
    /\ twin.visible_items = visible_items
    /\ twin.detail_scroll_offset = detail_scroll_offset

\* The fetch succeeded in one run and failed in the other; both runs have
\* gone back to the list and been drawn again at another height.
C28_Witness ==
    /\ total > 0
    /\ emails[1].body \in Payloads /\ twin.emails[1].body = NoBody
    /\ op = "set_visible_items" /\ pre.visible_items # visible_items
    /\ mode = List /\ twin.mode = List
    /\ pc = "event"

\* C29: mode isolation in run_app: while mode is Detail(_), no key press
\* changes selected, scroll_offset or visible_items; while mode is List, no
\* key press changes detail_scroll_offset; a key with no binding in the
\* current mode changes no state at all and raises no error.
C29_ModeIsolation ==
    [][pc = "event" =>
        /\ mode # List => /\ selected' = selected
                          /\ scroll_offset' = scroll_offset
                          /\ visible_items' = visible_items
        /\ mode = List => detail_scroll_offset' = detail_scroll_offset
        /\ op' = "ignored" => /\ emails' = emails
                              /\ selected' = selected
                              /\ mode' = mode
                              /\ scroll_offset' = scroll_offset
                              /\ visible_items' = visible_items
                              /\ detail_scroll_offset' = detail_scroll_offset
                              /\ ~panicked'
                              /\ pc' = "draw"]_vars

\* In a scrolled detail view a key without a binding there has been pressed
\* and the loop has gone on to the next draw.
C29_Witness ==
    /\ op = "ignored"
    /\ mode # List /\ pre.mode = mode
    /\ detail_scroll_offset > 0
    /\ pc = "draw" /\ ~panicked

\* C31: in Detail mode run_app maps j, Down, Ctrl-n and Ctrl-e to scroll
\* down, k, Up, Ctrl-p and Ctrl-y to scroll up, and each of q, Esc and
\* Backspace returns to List mode.
C31_DetailBindings ==
    (pc = "event" /\ mode # List) =>
        \A key \in Keys :
            LET after == handle_key(App, key, FetchErr)
            IN  /\ (\/ key.code \in {"j", "Down"}
                    \/ key.code \in {"n", "e"} /\ key.ctrl)
                   => after.detail_scroll_offset = detail_scroll_offset + 1
                /\ (\/ key.code \in {"k", "Up"}
                    \/ key.code \in {"p", "y"} /\ key.ctrl)
                   => after.detail_scroll_offset =
                          max(detail_scroll_offset - 1, 0)
                /\ key.code \in {"q", "Esc", "Backspace"}
                   => after.mode = List

\* C32: in List mode run_app maps j/Down/Ctrl-n to next, k/Up/Ctrl-p to
\* previous, Ctrl-f/Ctrl-b to page_forward/page_backward, Ctrl-d/Ctrl-u to
\* half_page_forward/half_page_backward, Ctrl-e/Ctrl-y to
\* line_forward/line_backward, H/M/L to goto_page_top/middle/bottom, Enter
\* to view_email, and q or Esc ends the session (run_app returns Ok).
C32_ListBindings ==
    (pc = "event" /\ mode = List /\ ~panicked) =>
        \A key \in Keys, fetch_result \in FetchResults :
            LET after == handle_key(App, key, fetch_result)
                name == binding(mode, key)
                c == key.code
            IN  /\ (c \in {"j", "Down"} \/ (c = "n" /\ key.ctrl))
                   => (name = "next" /\ after = next(App))
                /\ (c \in {"k", "Up"} \/ (c = "p" /\ key.ctrl))
                   => (name = "previous" /\ after = previous(App))
                /\ (c = "f" /\ key.ctrl)
                   => (name = "page_forward" /\ after = page_forward(App))
                /\ (c = "b" /\ key.ctrl)
                   => (name = "page_backward" /\ after = page_backward(App))
                /\ (c = "d" /\ key.ctrl)
                   => /\ name = "half_page_forward"
                      /\ after = half_page_forward(App)
                /\ (c = "u" /\ key.ctrl)
                   => /\ name = "half_page_backward"
                      /\ after = half_page_backward(App)
                /\ (c = "e" /\ key.ctrl)
                   => (name = "line_forward" /\ after = line_forward(App))
                /\ (c = "y" /\ key.ctrl)
                   => (name = "line_backward" /\ after = line_backward(App))
                /\ c = "H"
                   => (name = "goto_page_top" /\ after = goto_page_top(App))
                /\ c = "M"
                   => /\ name = "goto_page_middle"
                      /\ after = goto_page_middle(App)
                /\ c = "L"
                   => /\ name = "goto_page_bottom"
                      /\ after = goto_page_bottom(App)
                /\ c = "Enter"
                   => /\ name = "view_email"
                      /\ after = view_email(App, fetch_result)
                /\ c \in {"q", "Esc"} => (name = "quit" /\ ENABLED Quit)

\* After a visit to a detail view the session has been ended from the list
\* by q or Esc.
C32_Witness ==
    /\ pc = "done" /\ op = "quit"
    /\ mode = List /\ ~panicked
    /\ total > 0 /\ emails[1].body # NoBody

\* C33: the detail offset is unbounded above and clamped at zero below:
\* detail_scroll_down and detail_line_forward increase detail_scroll_offset
\* by exactly 1 from every reachable value, detail_scroll_up and
\* detail_line_backward decrease it by 1, leaving it at 0 when it is 0.
C33_DetailScrollSteps ==
    /\ op \in {"detail_scroll_down", "detail_line_forward"}
       => detail_scroll_offset = pre.detail_scroll_offset + 1
    /\ op \in {"detail_scroll_up", "detail_line_backward"}
       => detail_scroll_offset = max(pre.detail_scroll_offset - 1, 0)

\* C34: the state built by App::new is: mode List, scroll_offset 0,
\* detail_scroll_offset 0, and selected = Some(0) for a non-empty list but
\* None for an empty one.
C34_InitialState ==
    op = "new" =>
        /\ mode = List
        /\ scroll_offset = 0
        /\ detail_scroll_offset = 0
        /\ selected = IF total > 0 THEN Some(0) ELSE None

\* App::new has been given no emails.
C34_Witness ==
    /\ op = "new"
    /\ total = 0 /\ selected = None
    /\ visible_items = InitialVisibleItems

\* C35: in the event loop every list motion runs with visible_items equal
\* to the list-area height of the most recent list frame: a frame is drawn
\* (and set_visible_items applied) before each event is read, so the
\* placeholder height of App::new is never the height a motion uses, and a
\* height change is applied before the next list key is handled.
C35_MotionsUseFrameHeight ==
    (pc = "event" /\ mode = List) =>
        /\ is_some(frame_height)
        /\ visible_items = frame_height
        /\ op = "set_visible_items"

\* After a visit to a detail view the list has been drawn again, and a list
\* motion has then run with the height of that frame.
C35_Witness ==
    /\ op = "goto_page_bottom" /\ pc = "draw" /\ ~panicked
    /\ pre.visible_items = frame_height
    /\ visible_items = frame_height
    /\ frame_height >= 1
    /\ total > 0 /\ emails[1].body # NoBody

\* C36: with the window height held fixed at any h >= 1, every state
\* reachable from App::new on a non-empty list by the eleven list motions
\* satisfies scroll_offset <= max(0, total - h) and
\* scroll_offset <= selected < scroll_offset + h.
C36_FixedHeightInvariants ==
    /\ scroll_offset <= max(0, total - visible_items)
    /\ scroll_offset <= selected
    /\ selected < scroll_offset + visible_items

\* At a fixed height smaller than the list, motions have taken the window
\* off the top and the cursor to the window's last row.
C36_Witness ==
    /\ op \in {"line_backward", "half_page_backward", "previous"}
    /\ 1 <= visible_items /\ visible_items < total
    /\ scroll_offset > 0
    /\ selected = scroll_offset + visible_items - 1

\* C37: direction monotonicity in every reachable state, also after a height
\* change: next, page_forward, half_page_forward and line_forward never
\* decrease scroll_offset or selected; previous, page_backward,
\* half_page_backward and line_backward never increase scroll_offset or
\* selected.
C37_DirectionMonotonic ==
    /\ op \in {"next", "page_forward", "half_page_forward", "line_forward"}
       => (scroll_offset >= pre.scroll_offset /\ selected >= pre.selected)
    /\ op \in {"previous", "page_backward", "half_page_backward",
               "line_backward"}
       => (scroll_offset <= pre.scroll_offset /\ selected <= pre.selected)

\* C38: under the event loop, whenever mode is Detail(i) the list cursor is
\* still Some(i), and on return to List mode selected and scroll_offset are
\* exactly what they were when the detail view was entered: no step that
\* enters, stays in or leaves a detail view changes them.
C38_DetailKeepsCursor ==
    [][(mode # List \/ mode' # List)
       => /\ selected' = selected
          /\ scroll_offset' = scroll_offset
          /\ mode' # List => selected' = Some(mode'[2])]_vars

\* A detail view was opened, scrolled and left again: the list is back with
\* the cursor on the email that was viewed.
C38_Witness ==
    /\ op = "back_to_list" /\ mode = List
    /\ is_some(selected) /\ pre.mode = Detail(selected)
    /\ pre.detail_scroll_offset > 0
    /\ selected = pre.selected /\ scroll_offset = pre.scroll_offset
    /\ pc = "draw"

\* C39: under the event loop, detail_scroll_offset is 0 in every reachable
\* state whose mode is List; consequently every visit to detail mode starts
\* with detail_scroll_offset = 0.
C39_ListHasNoDetailScroll ==
    /\ mode = List => detail_scroll_offset = 0
    /\ (op = "view_email" /\ mode # List) => detail_scroll_offset = 0

\* A detail view opens unscrolled from a drawn list, on an email whose body
\* is already loaded so that no fetch is made.
C39_Witness ==
    /\ op = "view_email" /\ mode # List /\ pre.mode = List
    /\ requested = None /\ emails[mode[2] + 1].body # NoBody
    /\ is_some(frame_height) /\ pc = "draw"
    /\ detail_scroll_offset = 0

\* C40: in run_app the session can end by user input only from List mode: a
\* step that ends the loop starts in a List-mode state with
\* detail_scroll_offset = 0, and in a detail view no key ends the loop, 'q'
\* and Esc there only return to the list with detail_scroll_offset = 0; so
\* leaving the program from Detail(i) takes at least two key presses.
C40_QuitOnlyFromList ==
    [][/\ (pc' = "done" /\ pc # "done")
          => mode = List /\ detail_scroll_offset = 0 /\ op' = "quit"
       /\ (pc = "event" /\ mode # List)
          => /\ pc' # "done"
             /\ \A key \in Keys :
                  /\ binding(mode, key) # "quit"
                  /\ key.code \in {"q", "Esc"}
                     => /\ binding(mode, key) = "back_to_list"
                        /\ back_to_list(App).mode = List
                        /\ back_to_list(App).detail_scroll_offset = 0]_vars

\* 'q' or Esc was pressed in a detail view: the loop goes on, with the list
\* about to be drawn.
C40_Witness ==
    /\ op = "back_to_list" /\ pre.mode # List
    /\ pc = "draw" /\ mode = List /\ detail_scroll_offset = 0
    /\ ENABLED Draw

====
